---- MODULE Spec2Model ----
(***************************************************************************)
(* Hyperliquid trading signal API (src/hyperliquid-api/main.py).           *)
(*                                                                         *)
(* The model follows the Flask request threads running receive_signal,     *)
(* the background threads running monitor_positions, and the module-level  *)
(* globals they share (active_positions, monitoring_active).  The exchange *)
(* is an external service: each call to it is a nondeterministic reply.    *)
(* A step of a thread is one stretch of code between two accesses to the   *)
(* shared globals or to the wall clock.                                    *)
(***************************************************************************)
EXTENDS Integers, Sequences, FiniteSets, TLC

\* ------------------------------------------------------------------ bounds

\* Number of POST /signal requests over a run.
MaxSignals == 2
\* Number of POST /signal requests over a run that serves them one at a time.
MaxSerialSignals == 1
\* The wall clock runs over 0..MaxTime (seconds, as int(time.time())).
MaxTime == 1
\* Number of method calls on one HyperliquidTrader instance.
MaxCalls == 2

\* ------------------------------------------------------------- the threads

\* The requests, in their order of arrival.  The Flask server of app.run
\* serves each request on a thread of its own.
Handlers == 1..MaxSignals
\* The monitor thread a request may start is named after the request.
Monitors == Handlers

\* ------------------------------------------------------------- characters

UpperChars == <<"B", "U", "Y", "S", "E", "L", "T", "C", "H", "O", "D">>
LowerChars == <<"b", "u", "y", "s", "e", "l", "t", "c", "h", "o", "d">>

IndexIn(c, chars) == IF \E i \in DOMAIN chars : chars[i] = c
                     THEN CHOOSE i \in DOMAIN chars : chars[i] = c
                     ELSE 0

LowerChar(c) == IF IndexIn(c, UpperChars) # 0 THEN LowerChars[IndexIn(c, UpperChars)] ELSE c
UpperChar(c) == IF IndexIn(c, LowerChars) # 0 THEN UpperChars[IndexIn(c, LowerChars)] ELSE c

\* str.lower() with no effect: the mutant of lower.
lower_identity(s) == s
\* str.lower()
lower(s) == [i \in DOMAIN s |-> LowerChar(s[i])]
\* str.upper()
upper(s) == [i \in DOMAIN s |-> UpperChar(s[i])]

\* ------------------------------------------------------- JSON payload values

\* A JSON value of the request body.  t is its type: "absent" (key missing),
\* "null", "num" (n), "str" (characters s), "iso" (a string that is an
\* ISO-8601 timestamp of clock value n with offset suffix tz), "dict" (an
\* object; inner is the type of its "$date" member, "absent" without one, and
\* s, n, tz hold that member's content).
Raw(t, s, n, tz, inner) == [t |-> t, s |-> s, n |-> n, tz |-> tz, inner |-> inner]
Absent == Raw("absent", <<>>, 0, "", "absent")
Null == Raw("null", <<>>, 0, "", "absent")
Num(n) == Raw("num", <<>>, n, "", "absent")
Str(s) == Raw("str", s, 0, "", "absent")
Iso(n, tz) == Raw("iso", <<>>, n, tz, "absent")
Wrapped(v) == Raw("dict", v.s, v.n, v.tz, v.t)

IsStr(v) == v.t \in {"str", "iso"}

\* float(x): [ok, exc, v].  A string converts when it is a decimal numeral.
Digits == <<"0", "1", "2", "3", "4", "5", "6", "7", "8", "9">>
RECURSIVE ParseDigits(_)
ParseDigits(s) == IF s = <<>> THEN 0
                  ELSE 10 * ParseDigits(SubSeq(s, 1, Len(s) - 1))
                       + (IndexIn(s[Len(s)], Digits) - 1)
float(v) ==
    IF v.t = "num" THEN [ok |-> TRUE, exc |-> "", v |-> v.n]
    ELSE IF v.t = "str" /\ v.s # <<>> /\ \A i \in DOMAIN v.s : IndexIn(v.s[i], Digits) # 0
    THEN [ok |-> TRUE, exc |-> "", v |-> ParseDigits(v.s)]
    ELSE IF IsStr(v) THEN [ok |-> FALSE, exc |-> "ValueError", v |-> 0]
    ELSE [ok |-> FALSE, exc |-> "TypeError", v |-> 0]

\* A datetime: clock value t, and whether it carries a UTC offset.
DateTime(t, aware) == [t |-> t, aware |-> aware]

\* datetime.fromisoformat(x.replace('Z', '+00:00')) for a string x.
\* [ok, exc, v].  replace is a str method: any other type has none.
parse_iso(t, n, tz) ==
    IF t = "iso"
    THEN [ok |-> TRUE, exc |-> "",
          v |-> DateTime(n, (IF tz = "Z" THEN "+00:00" ELSE tz) = "+00:00")]
    ELSE IF t = "str" THEN [ok |-> FALSE, exc |-> "ValueError", v |-> DateTime(0, FALSE)]
    ELSE [ok |-> FALSE, exc |-> "AttributeError", v |-> DateTime(0, FALSE)]

\* Lines 499-517: the Max Exit Time of the payload.
parse_max_exit_time(v) ==
    IF v.t = "dict" /\ v.inner # "absent" THEN parse_iso(v.inner, v.n, v.tz)
    ELSE IF IsStr(v) THEN parse_iso(v.t, v.n, v.tz)
    ELSE [ok |-> FALSE, exc |-> "ValueError", v |-> DateTime(0, FALSE)]

\* ------------------------------------------------------------ the payload

\* The body of a POST /signal request as request.get_json() returns it:
\* body "none" (no JSON, or a falsy value), "nondict" (a truthy non-object) or
\* "dict" with the members below ("Signal Message", "Token Mentioned", "TP1",
\* "TP2", "SL", "Current Price", "Max Exit Time").
Payload(body, msg, token, tp1, tp2, sl, price, exit) ==
    [body |-> body, msg |-> msg, token |-> token, tp1 |-> tp1, tp2 |-> tp2,
     sl |-> sl, price |-> price, exit |-> exit]

buy == <<"b", "u", "y">>
sell == <<"s", "e", "l", "l">>

\* What lines 463-522 leave behind: code 0 when the signal passed validation
\* (the parsed locals are then meaningful), else the HTTP status returned.
Parsed(code, error, signal_message, symbol, tp1, tp2, sl, current_price, max_exit_time) ==
    [code |-> code, error |-> error, signal_message |-> signal_message,
     symbol |-> symbol, tp1 |-> tp1, tp2 |-> tp2, sl |-> sl,
     current_price |-> current_price, max_exit_time |-> max_exit_time,
     is_buy |-> signal_message = buy]
Rejected(code, error) == Parsed(code, error, <<>>, <<>>, 0, 0, 0, 0, DateTime(0, FALSE))

\* Lines 463-522 of receive_signal.  An exception that the inner handlers
\* (KeyError, TypeError, ValueError) do not name reaches the handler of line
\* 612 and becomes a 500.
validate_signal(p) ==
    LET tp1 == float(p.tp1)
        tp2 == float(p.tp2)
        sl == float(p.sl)
        \* signal_data.get('Current Price', 0)
        price == float(IF p.price.t = "absent" THEN Num(0) ELSE p.price)
        exit == parse_max_exit_time(p.exit)
    IN IF p.body = "none" THEN Rejected(400, "No JSON data provided")
       ELSE IF p.body # "dict" THEN Rejected(400, "Invalid data format")
       ELSE IF \E f \in {p.msg, p.token, p.tp1, p.tp2, p.sl, p.exit} : f.t = "absent"
       THEN Rejected(400, "Missing required field")
       ELSE IF ~IsStr(p.msg) \/ ~IsStr(p.token) THEN Rejected(500, "AttributeError")
       ELSE IF ~tp1.ok \/ ~tp2.ok \/ ~sl.ok \/ ~price.ok
       THEN Rejected(400, "Error parsing signal data")
       ELSE IF ~exit.ok /\ exit.exc = "AttributeError" THEN Rejected(500, "AttributeError")
       ELSE IF ~exit.ok THEN Rejected(400, "Error parsing Max Exit Time")
       ELSE IF lower(p.msg.s) \notin {buy, sell}
       THEN Rejected(400, "Invalid signal message")
       ELSE Parsed(0, "", lower(p.msg.s), upper(p.token.s), tp1.v, tp2.v, sl.v,
                   price.v, exit.v)

\* ------------------------------------------------------------ the exchange

\* info.all_mids() as get_current_price (lines 244-263) hands it on: a mid
\* price, or 0 for every falsy outcome (None after an error, a missing symbol
\* or a non-dict reply); all callers test it with "not".
Prices == {89, 105, 110, 111}
PriceReplies == {0} \cup Prices

\* What place_order (lines 184-229) returns: exchange.order's reply, or None
\* after an exception.  kind is the Python type, status the reply's 'status'
\* member ("absent" without one), empty whether the value is falsy.
Result(kind, status, empty) == [kind |-> kind, status |-> status, empty |-> empty]
NoResult == Result("none", "absent", TRUE)
OkResult == Result("dict", "ok", FALSE)
ErrResult == Result("dict", "err", FALSE)
OrderReplies == {NoResult, OkResult, ErrResult,
                 Result("dict", "absent", TRUE), Result("str", "absent", FALSE)}

Truthy(r) == ~r.empty

\* What get_position (lines 231-242) learns from info.user_state: "error"
\* (the query raised, or the reply was malformed), "flat" (no position for
\* the symbol) or "held" with the signed size szi.
Position(kind, szi) == [kind |-> kind, szi |-> szi]
PositionReplies == {Position("error", 0), Position("flat", 0),
                    Position("held", 1), Position("held", -1)}
\* get_position's return value is None unless the position is held.
HasPosition(pos) == pos.kind = "held"

\* An order handed to exchange.order (lines 216-222); tif "none" stands for
\* no order.
Order(symbol, is_buy, tif) == [symbol |-> symbol, is_buy |-> is_buy, tif |-> tif]
NoOrder == Order(<<>>, FALSE, "none")

\* place_order (lines 184-229) for a market order: the order goes to the
\* exchange as immediate-or-cancel and the exchange's reply is returned.
place_order(symbol, is_buy, reply) ==
    [result |-> reply, order |-> Order(symbol, is_buy, "Ioc")]

\* close_position (lines 337-372): pos is the reply to get_position, mid the
\* mid price get_market_price sees, mid2 the mid price of the fallback of
\* line 350, reply the exchange's answer to the closing order.
close_position(symbol, pos, mid, mid2, reply) ==
    IF ~HasPosition(pos) THEN [result |-> NoResult, order |-> NoOrder]
    ELSE IF mid = 0 /\ mid2 = 0 THEN [result |-> NoResult, order |-> NoOrder]
    ELSE place_order(symbol, pos.szi < 0, reply)

\* ------------------------------------------------------------- the numbers

\* A float is modelled by the rational it stands for, n / d in lowest terms
\* with d > 0.  Every quotient and product of the sizing code is exact here.
RECURSIVE GCD(_, _)
GCD(a, b) == IF b = 0 THEN a ELSE GCD(b, a % b)
RECURSIVE Pow10(_)
Pow10(k) == IF k = 0 THEN 1 ELSE 10 * Pow10(k - 1)
Sign(n) == IF n < 0 THEN -1 ELSE 1
Rat(n, d) ==
    LET g == GCD(Sign(n) * n, Sign(d) * d)
    IN [n |-> (Sign(d) * n) \div g, d |-> (Sign(d) * d) \div g]
Whole(n) == Rat(n, 1)
\* 10 ** k for an int k of either sign.
Ten(k) == IF k >= 0 THEN Rat(Pow10(k), 1) ELSE Rat(1, Pow10(-k))
Mul(a, b) == Rat(a.n * b.n, a.d * b.d)
\* a / b for b # 0; the callers raise ZeroDivisionError for b = 0.
Div(a, b) == Rat(a.n * b.d, a.d * b.n)
Less(a, b) == a.n * b.d < b.n * a.d
max(a, b) == IF Less(a, b) THEN b ELSE a
abs(a) == Rat(Sign(a.n) * a.n, a.d)

\* a / b for naturals a and b > 0, rounded to the nearest integer, a tie to
\* the even one.
RoundDiv(a, b) ==
    LET q == a \div b
        r == a % b
    IN IF 2 * r > b \/ (2 * r = b /\ q % 2 = 1) THEN q + 1 ELSE q

\* round(x, k): x rounded to k decimals (to a multiple of 10 ** -k for k < 0).
round(x, k) ==
    LET m == Sign(x.n) * x.n
    IN IF k >= 0
       THEN Rat(Sign(x.n) * RoundDiv(m * Pow10(k), x.d), Pow10(k))
       ELSE Whole(Sign(x.n) * RoundDiv(m, x.d * Pow10(-k)) * Pow10(-k))

\* The decimal exponent of x # 0: the e with 10 ** e <= |x| < 10 ** (e + 1),
\* searched from e.
RECURSIVE Exponent(_, _)
Exponent(x, e) ==
    IF ~Less(abs(x), Ten(e + 1)) THEN Exponent(x, e + 1)
    ELSE IF Less(abs(x), Ten(e)) THEN Exponent(x, e - 1)
    ELSE e

\* float(f"{x:.5g}"): x rounded to 5 significant digits.
format_5g(x) == IF x.n = 0 THEN x ELSE round(x, 4 - Exponent(x, 0))

\* ------------------------------------------- HyperliquidTrader (30-372)

\* What a method hands back: a value, None, or an exception.
Value(v) == [kind |-> "value", v |-> v]
None == [kind |-> "none", v |-> Whole(0)]
Raised == [kind |-> "raised", v |-> Whole(0)]
\* "if x:" for a float or None.
IsTruthy(out) == out.kind = "value" /\ out.v.n # 0

\* self._asset_specs: None until the first get_asset_specs, then a dict from
\* asset names to their asset_id and sz_decimals.
AssetSpecs(loaded, assets) == [loaded |-> loaded, assets |-> assets]
NoSpecs == AssetSpecs(FALSE, <<>>)

\* info.meta(): an exception, a dict without 'universe', or a dict whose
\* 'universe' lists assets; universe maps an asset's name to its place idx in
\* the list and its 'szDecimals' member (a JSON value).
Meta(kind, universe) == [kind |-> kind, universe |-> universe]
Asset(idx, szDecimals) == [idx |-> idx, szDecimals |-> szDecimals]

\* Lines 47-68 with the fetch repeated while the cache is empty: a mutant of
\* get_asset_specs.
get_asset_specs_refetch_empty(specs, meta) ==
    IF specs.loaded /\ specs.assets # <<>> THEN [specs |-> specs, fetched |-> FALSE]
    ELSE [specs |-> AssetSpecs(TRUE,
                      IF meta.kind # "universe" THEN <<>>
                      ELSE [name \in DOMAIN meta.universe |->
                              [asset_id |-> meta.universe[name].idx,
                               sz_decimals |->
                                 IF meta.universe[name].szDecimals.t = "absent"
                                 THEN Num(4) ELSE meta.universe[name].szDecimals]]),
          fetched |-> TRUE]

\* get_asset_specs (lines 47-68): the cache after the call, and whether
\* info.meta() was called; meta is its reply.
get_asset_specs(specs, meta) ==
    IF specs.loaded THEN [specs |-> specs, fetched |-> FALSE]
    ELSE [specs |-> AssetSpecs(TRUE,
                      IF meta.kind # "universe" THEN <<>>
                      ELSE [name \in DOMAIN meta.universe |->
                              [asset_id |-> meta.universe[name].idx,
                               sz_decimals |->
                                 IF meta.universe[name].szDecimals.t = "absent"
                                 THEN Num(4) ELSE meta.universe[name].szDecimals]]),
          fetched |-> TRUE]

\* Lines 70-101 with the fallback minimum of line 101 for an unknown symbol:
\* a mutant of get_min_order_size.
get_min_order_size_coarse(assets, symbol, current_price) ==
    IF current_price.n = 0 THEN Raised
    ELSE IF symbol \notin DOMAIN assets \/ assets[symbol].sz_decimals.t # "num"
    THEN Value(max(Div(Whole(10), current_price), Rat(1, 1000)))
    ELSE Value(max(Ten(-assets[symbol].sz_decimals.n), Div(Whole(10), current_price)))

\* get_min_order_size (lines 70-101) over the loaded cache.  A price of 0
\* raises ZeroDivisionError at line 80 or 91, and the handler divides by it
\* again at line 101; an sz_decimals that is no number raises TypeError at
\* line 86, and the handler returns its fallback.
get_min_order_size(assets, symbol, current_price) ==
    IF current_price.n = 0 THEN Raised
    ELSE IF symbol \notin DOMAIN assets
    THEN Value(max(Div(Whole(10), current_price), Rat(1, 10000)))
    ELSE IF assets[symbol].sz_decimals.t # "num"
    THEN Value(max(Div(Whole(10), current_price), Rat(1, 1000)))
    ELSE Value(max(Ten(-assets[symbol].sz_decimals.n), Div(Whole(10), current_price)))

\* Lines 103-128 without the rounding of lines 116-123: a mutant of
\* validate_and_adjust_size.
validate_and_adjust_size_unrounded(assets, symbol, size, current_price) ==
    LET min_size == get_min_order_size(assets, symbol, current_price)
    IN IF min_size.kind = "raised" THEN Value(size)
       ELSE IF Less(size, min_size.v) THEN Value(Mul(min_size.v, Rat(101, 100)))
       ELSE Value(size)

\* validate_and_adjust_size (lines 103-128).  round(size, None) rounds to an
\* integer.
validate_and_adjust_size(assets, symbol, size, current_price) ==
    LET min_size == get_min_order_size(assets, symbol, current_price)
    IN IF min_size.kind = "raised" THEN Value(size)
       ELSE IF Less(size, min_size.v) THEN Value(Mul(min_size.v, Rat(101, 100)))
       ELSE IF symbol \in DOMAIN assets
       THEN Value(round(size, IF assets[symbol].sz_decimals.t = "num"
                              THEN assets[symbol].sz_decimals.n ELSE 0))
       ELSE Value(size)

\* Lines 130-155 with 6 decimals for every asset: a mutant of format_price.
format_price_perp_only(assets, price, symbol) ==
    IF symbol \in DOMAIN assets /\ assets[symbol].sz_decimals.t = "num"
    THEN Value(round(format_5g(price), 6 - assets[symbol].sz_decimals.n))
    ELSE Value(format_5g(price))

\* format_price (lines 130-155).  An sz_decimals that is no number raises
\* TypeError at line 146, and the handler returns the 5-digit rounding.
format_price(assets, price, symbol) ==
    IF symbol \in DOMAIN assets /\ assets[symbol].sz_decimals.t = "num"
    THEN Value(round(format_5g(price),
                     (IF assets[symbol].asset_id >= 10000 THEN 8 ELSE 6)
                       - assets[symbol].sz_decimals.n))
    ELSE Value(format_5g(price))

\* get_market_price (lines 157-182): mid is what get_current_price returns
\* (0 for None).
get_market_price(assets, symbol, is_buy, mid) ==
    IF mid.n = 0 THEN None
    ELSE format_price(assets, Mul(mid, IF is_buy THEN Rat(102, 100) ELSE Rat(98, 100)),
                      symbol)

\* What calculate_position_size returns: (position_size_usd, position_size).
Sized(usd, size) == [kind |-> "value", v |-> size, usd |-> usd]
NotSized == [kind |-> "raised", v |-> Whole(0), usd |-> Whole(0)]

\* Lines 297-335 with the default size passed on when the balance is there:
\* a mutant of calculate_position_size.
calculate_position_size_fixed(assets, symbol, current_price, percentage, balance) ==
    IF current_price.n = 0 THEN NotSized
    ELSE Sized(Whole(100), Div(Whole(100), current_price))

\* calculate_position_size (lines 297-335): balance is what get_vault_balance
\* returns, None or the total account value.  With a price of 0 a division
\* raises, and get_min_order_size raises again in the handler of line 332.
calculate_position_size(assets, symbol, current_price, percentage, balance) ==
    IF current_price.n = 0 THEN NotSized
    ELSE IF balance.kind # "value"
    THEN Sized(Whole(100), Div(Whole(100), current_price))
    ELSE LET min_order_size == get_min_order_size(assets, symbol, current_price).v
             min_position_usd == Mul(min_order_size, current_price)
             wanted_usd == Mul(balance.v, Div(percentage, Whole(100)))
             position_size_usd == IF Less(wanted_usd, min_position_usd)
                                  THEN Mul(min_position_usd, Rat(11, 10))
                                  ELSE wanted_usd
             position_size ==
                 validate_and_adjust_size(assets, symbol,
                                          Div(position_size_usd, current_price),
                                          current_price).v
         IN Sized(Mul(position_size, current_price), position_size)

\* The order exchange.order receives (lines 216-222).
SizedOrder(symbol, is_buy, size, price, tif) ==
    [symbol |-> symbol, is_buy |-> is_buy, size |-> size, price |-> price, tif |-> tif]
NoSizedOrder == SizedOrder(<<>>, FALSE, Whole(0), Whole(0), "none")

\* Lines 187-197 of place_order: the price of the order; mid is what
\* get_current_price returns inside get_market_price.
order_price(assets, symbol, is_buy, price, order_type, mid) ==
    LET market_price == get_market_price(assets, symbol, is_buy, mid)
    IN IF order_type = "market" /\ IsTruthy(market_price) THEN market_price.v
       ELSE format_price(assets, price, symbol).v

\* Lines 199-201 with the adjustment left out for market orders: a mutant of
\* order_size.
order_size_market_unadjusted(assets, symbol, size, price, order_type) ==
    IF order_type = "market" THEN size
    ELSE validate_and_adjust_size(assets, symbol, size, price).v

\* Lines 199-201 of place_order: the size of the order.
order_size(assets, symbol, size, price, order_type) ==
    validate_and_adjust_size(assets, symbol, size, price).v

\* place_order (lines 184-229) with the order's price and size: the order
\* submitted, and reply handed on as the result.
submit_order(assets, symbol, is_buy, size, price, order_type, mid, reply) ==
    LET final_price == order_price(assets, symbol, is_buy, price, order_type, mid)
    IN [result |-> reply,
        order |-> SizedOrder(symbol, is_buy,
                             order_size(assets, symbol, size, final_price, order_type),
                             final_price,
                             IF order_type = "market" THEN "Ioc" ELSE "Gtc")]

\* Lines 346-357 of close_position: the price handed to place_order, 0 when
\* there is none; mid and mid2 are the two replies of get_current_price.
close_price(assets, symbol, is_buy, mid, mid2) ==
    LET market_price == get_market_price(assets, symbol, is_buy, mid)
    IN IF IsTruthy(market_price) THEN market_price.v
       ELSE IF mid2.n # 0 THEN format_price(assets, mid2, symbol).v
       ELSE Whole(0)

\* Line 345 with the held side kept: a mutant of closing_side.
closing_side_held(pos) == pos.szi.n > 0
\* Line 345: is_buy of the closing order, a buy for a short position.
closing_side(pos) == pos.szi.n < 0

\* close_position (lines 337-372) with the order's price and size: pos is the
\* reply of get_position (szi a float), mid3 the price get_market_price sees
\* inside place_order.
close_order(assets, symbol, pos, mid, mid2, mid3, reply) ==
    LET is_buy == closing_side(pos)
        market_price == close_price(assets, symbol, is_buy, mid, mid2)
    IN IF ~HasPosition(pos) \/ market_price.n = 0
       THEN [result |-> NoResult, order |-> NoSizedOrder]
       ELSE submit_order(assets, symbol, is_buy, abs(pos.szi), market_price, "market",
                         mid3, reply)

\* ------------------------------------------------------------------- state

VARIABLES
    active_positions,   \* line 26: the dict, as its items in insertion order
    monitoring_active,  \* line 28
    now,                \* the wall clock, in seconds
    req,                \* per request: the locals of receive_signal
    mon,                \* per monitor thread: the locals of monitor_positions
    trader,             \* a HyperliquidTrader instance and the last call on it
    seen                \* what the step just taken read from the exchange

vars == <<active_positions, monitoring_active, now, req, mon, trader, seen>>

\* Lines 580-590 with the payload's price as entry_price: a mutant of Entry.
EntryAtPayloadPrice(symbol, t, parsed, current_price, order_result) ==
    [id |-> <<symbol, t>>, symbol |-> symbol, is_buy |-> parsed.is_buy,
     tp1 |-> parsed.tp1, tp2 |-> parsed.tp2, sl |-> parsed.sl,
     max_exit_time |-> parsed.max_exit_time, entry_price |-> parsed.current_price,
     order_result |-> order_result]

\* An item of active_positions (lines 580-590): signal_id and trade data.
Entry(symbol, t, parsed, current_price, order_result) ==
    [id |-> <<symbol, t>>, symbol |-> symbol, is_buy |-> parsed.is_buy,
     tp1 |-> parsed.tp1, tp2 |-> parsed.tp2, sl |-> parsed.sl,
     max_exit_time |-> parsed.max_exit_time, entry_price |-> current_price,
     order_result |-> order_result]

Keys(d) == {d[i].id : i \in DOMAIN d}
\* d[key] = e: a new key goes last, a known key keeps its place.
SetItem(d, e) ==
    IF e.id \in Keys(d)
    THEN [i \in DOMAIN d |-> IF d[i].id = e.id THEN e ELSE d[i]]
    ELSE Append(d, e)
\* del d[key], for a key of d.
DelItem(d, key) == SelectSeq(d, LAMBDA e : e.id # key)

NoPayload == Payload("none", Absent, Absent, Absent, Absent, Absent, Absent, Absent)
NoId == <<<<>>, -1>>

IdleRequest ==
    [pc |-> "idle", payload |-> NoPayload, parsed |-> Rejected(0, ""),
     current_price |-> 0, order_result |-> NoResult, order |-> NoOrder,
     signal_id |-> NoId, code |-> 0]

NoMonitor ==
    [pc |-> "none", items |-> <<>>, idx |-> 0, current_price |-> 0,
     close_reason |-> "", close_result |-> NoResult, order |-> NoOrder,
     error |-> ""]

\* The last call on the trader: the method, its arguments, the replies of
\* the exchange it saw (meta the kind of info.meta()'s reply, "none" without a
\* call of it), and what it handed back.
NoCall ==
    [op |-> "none", symbol |-> <<>>, price |-> Whole(0), size |-> Whole(0),
     is_buy |-> FALSE, order_type |-> "none", percentage |-> Whole(0),
     balance |-> None, pos |-> Position("flat", Whole(0)),
     mid |-> Whole(0), mid2 |-> Whole(0), mid3 |-> Whole(0), meta |-> "none",
     out |-> None, usd |-> Whole(0), result |-> NoResult, order |-> NoSizedOrder]

\* HyperliquidTrader.__init__ (lines 31-45): the cache is None.  meta_calls
\* counts the calls of info.meta(), calls the method calls on the instance.
NewTrader ==
    [_asset_specs |-> NoSpecs, meta_calls |-> 0, calls |-> 0, call |-> NoCall]

\* What a monitor step read for its item: whether get_current_price (line
\* 402) gave a price ("given") or not ("missing"), and the reply of
\* get_position (line 408); "none" without a call.
Sight(price, position) == [price |-> price, position |-> position]
\* The step made neither call.
NoSight == Sight("none", "none")

Init ==
    /\ active_positions = <<>>
    /\ monitoring_active = FALSE
    /\ now = 0
    /\ req = [h \in Handlers |-> IdleRequest]
    /\ mon = [m \in Monitors |-> NoMonitor]
    /\ trader = NewTrader
    /\ seen = NoSight

\* time.time() / datetime.now() move on.
Tick ==
    /\ now < MaxTime
    /\ now' = now + 1
    /\ UNCHANGED <<active_positions, monitoring_active, req, mon, trader>>
    /\ seen' = NoSight

\* ------------------------------------------------- receive_signal (461-614)

\* The request ends with HTTP status code.
Respond(h, code) == [req[h] EXCEPT !.pc = "done", !.code = code]

\* A POST /signal request arrives, after the requests before it.
IntakeReceive(h, p) ==
    /\ req[h].pc = "idle"
    /\ h > 1 => req[h - 1].pc # "idle"
    /\ req' = [req EXCEPT ![h] = [IdleRequest EXCEPT !.pc = "validate", !.payload = p]]
    /\ UNCHANGED <<active_positions, monitoring_active, now, mon, trader>>
    /\ seen' = NoSight

\* A POST /signal request arrives after the requests before it were answered.
IntakeReceiveSerial(h, p) ==
    /\ h > 1 => req[h - 1].pc = "done"
    /\ IntakeReceive(h, p)

\* Lines 463-522: validation and parsing.
IntakeValidate(h) ==
    /\ req[h].pc = "validate"
    /\ LET parsed == validate_signal(req[h].payload)
       IN req' = [req EXCEPT ![h] =
                    IF parsed.code # 0 THEN Respond(h, parsed.code)
                    ELSE [req[h] EXCEPT !.pc = "price", !.parsed = parsed,
                                        !.current_price = parsed.current_price]]
    /\ UNCHANGED <<active_positions, monitoring_active, now, mon, trader>>
    /\ seen' = NoSight

\* Lines 524-548: load_config and the trader's construction, either of which
\* may raise; then the price of the payload, or the live mid price when the
\* payload gave none (or 0).
IntakePrice(h) ==
    /\ req[h].pc = "price"
    /\ \E ok \in BOOLEAN :
       \E mid \in (IF ok /\ req[h].current_price = 0 THEN PriceReplies ELSE {0}) :
         req' = [req EXCEPT ![h] =
                   IF ~ok THEN Respond(h, 500)
                   ELSE IF req[h].current_price # 0 THEN [req[h] EXCEPT !.pc = "place"]
                   ELSE IF mid = 0 THEN Respond(h, 400)
                   ELSE [req[h] EXCEPT !.pc = "place", !.current_price = mid]]
    /\ UNCHANGED <<active_positions, monitoring_active, now, mon, trader>>
    /\ seen' = NoSight

\* Lines 565-573 with the status check left out: a mutant of order_accepted.
order_accepted_unchecked(order_result) == Truthy(order_result)
\* Lines 565-573: the order result that lets the signal be registered.
order_accepted(order_result) ==
    /\ Truthy(order_result)
    /\ order_result.kind = "dict"
    /\ order_result.status = "ok"

\* Lines 550-577: the position size, whose calculation may raise (500 before
\* any order), and the market order.
IntakePlace(h) ==
    /\ req[h].pc = "place"
    /\ \E sized \in BOOLEAN :
       \E reply \in (IF sized THEN OrderReplies ELSE {NoResult}) :
         LET placed == place_order(req[h].parsed.symbol, req[h].parsed.is_buy, reply)
             r == [req[h] EXCEPT !.order_result = placed.result, !.order = placed.order]
         IN req' = [req EXCEPT ![h] =
                      IF ~sized THEN Respond(h, 500)
                      ELSE IF order_accepted(placed.result)
                      THEN [r EXCEPT !.pc = "register"]
                      ELSE [r EXCEPT !.pc = "done", !.code = 500]]
    /\ UNCHANGED <<active_positions, monitoring_active, now, mon, trader>>
    /\ seen' = NoSight

\* Line 580: f"{symbol}_{int(time.time())}".
signal_id(symbol, t) == <<symbol, t>>

\* Lines 579-590: the position enters active_positions.
IntakeRegister(h) ==
    /\ req[h].pc = "register"
    /\ LET r == req[h]
           id == signal_id(r.parsed.symbol, now)
       IN /\ active_positions' =
               SetItem(active_positions,
                       Entry(r.parsed.symbol, id[2], r.parsed, r.current_price,
                             r.order_result))
          /\ req' = [req EXCEPT ![h] = [r EXCEPT !.pc = "check", !.signal_id = id]]
    /\ UNCHANGED <<monitoring_active, now, mon, trader>>
    /\ seen' = NoSight

\* Line 594: the test of the flag.
IntakeCheckMonitor(h) ==
    /\ req[h].pc = "check"
    /\ req' = [req EXCEPT ![h] = IF monitoring_active THEN Respond(h, 200)
                                 ELSE [req[h] EXCEPT !.pc = "set"]]
    /\ UNCHANGED <<active_positions, monitoring_active, now, mon, trader>>
    /\ seen' = NoSight

\* Line 595.
IntakeSetMonitoring(h) ==
    /\ req[h].pc = "set"
    /\ monitoring_active' = TRUE
    /\ req' = [req EXCEPT ![h] = [req[h] EXCEPT !.pc = "start"]]
    /\ UNCHANGED <<active_positions, now, mon, trader>>
    /\ seen' = NoSight

\* Lines 596-610: the monitor thread starts; the request succeeds.
IntakeStartMonitor(h) ==
    /\ req[h].pc = "start"
    /\ mon' = [mon EXCEPT ![h] = [NoMonitor EXCEPT !.pc = "init"]]
    /\ req' = [req EXCEPT ![h] = Respond(h, 200)]
    /\ UNCHANGED <<active_positions, monitoring_active, now, trader>>
    /\ seen' = NoSight

\* ---------------------------------------------- monitor_positions (385-458)

\* The item of the pass's snapshot the monitor is at.
Current(m) == mon[m].items[mon[m].idx]

\* "continue", or the end of the loop body: the next item of the snapshot, or
\* the sleep of line 458 after the last one.
NextItem(r) ==
    IF r.idx < Len(r.items)
    THEN [r EXCEPT !.pc = "item", !.idx = r.idx + 1, !.current_price = 0,
                   !.close_reason = "", !.close_result = NoResult, !.order = NoOrder]
    ELSE [NoMonitor EXCEPT !.pc = "sleep", !.error = r.error]

\* Lines 455-456: an exception ends the pass; the sleep follows.
AbortPass(r, exc) ==
    [NoMonitor EXCEPT !.pc = "sleep", !.error = exc]

\* Lines 389-390: load_config and the trader's construction, outside any try:
\* an exception ends the thread.
MonInit(m) ==
    /\ mon[m].pc = "init"
    /\ \E ok \in BOOLEAN :
         mon' = [mon EXCEPT ![m] = [mon[m] EXCEPT !.pc = IF ok THEN "loop" ELSE "dead"]]
    /\ UNCHANGED <<active_positions, monitoring_active, now, req, trader>>
    /\ seen' = NoSight

\* Lines 392-394 with the flag cleared once the registry is empty: a mutant of
\* MonLoop.
MonLoopStopsWhenEmpty(m) ==
    /\ mon[m].pc = "loop"
    /\ monitoring_active' = (monitoring_active /\ active_positions # <<>>)
    /\ mon' = [mon EXCEPT ![m] =
                 IF ~monitoring_active \/ active_positions = <<>>
                 THEN [NoMonitor EXCEPT !.pc = "dead"]
                 ELSE [NoMonitor EXCEPT !.pc = "item", !.items = active_positions,
                                        !.idx = 1]]
    /\ UNCHANGED <<active_positions, now, req, trader>>
    /\ seen' = NoSight

\* Lines 392-394: the loop test and the snapshot list(active_positions.items()).
MonLoop(m) ==
    /\ mon[m].pc = "loop"
    /\ mon' = [mon EXCEPT ![m] =
                 IF ~monitoring_active THEN [NoMonitor EXCEPT !.pc = "dead"]
                 ELSE IF active_positions = <<>>
                 THEN [NoMonitor EXCEPT !.pc = "sleep"]
                 ELSE [NoMonitor EXCEPT !.pc = "item", !.items = active_positions,
                                        !.idx = 1]]
    /\ UNCHANGED <<active_positions, monitoring_active, now, req, trader>>
    /\ seen' = NoSight

\* Lines 411 and 453 with a "break" after the del: a mutant of Remove.
RemoveEndsPass(m) ==
    IF Current(m).id \in Keys(active_positions)
    THEN /\ active_positions' = DelItem(active_positions, Current(m).id)
         /\ mon' = [mon EXCEPT ![m] = [NoMonitor EXCEPT !.pc = "sleep",
                                                        !.error = mon[m].error]]
    ELSE /\ active_positions' = active_positions
         /\ mon' = [mon EXCEPT ![m] = AbortPass(mon[m], "KeyError")]

\* del active_positions[signal_id] (lines 411 and 453) and what follows it:
\* the next item, or KeyError when the key is gone.
Remove(m) ==
    IF Current(m).id \in Keys(active_positions)
    THEN /\ active_positions' = DelItem(active_positions, Current(m).id)
         /\ mon' = [mon EXCEPT ![m] = NextItem(mon[m])]
    ELSE /\ active_positions' = active_positions
         /\ mon' = [mon EXCEPT ![m] = AbortPass(mon[m], "KeyError")]

\* Lines 402-412 with a position whose price is missing dropped like one that
\* is gone: a mutant of MonItem.
MonItemDropsUnpriced(m) ==
    /\ mon[m].pc = "item"
    /\ \E mid \in PriceReplies :
       \E pos \in (IF mid # 0 THEN PositionReplies ELSE {Position("flat", 0)}) :
         /\ seen' = IF mid = 0 THEN Sight("missing", "none")
                     ELSE Sight("given", pos.kind)
         /\ IF mid # 0 /\ HasPosition(pos)
            THEN /\ mon' = [mon EXCEPT ![m] = [mon[m] EXCEPT !.pc = "evaluate",
                                                             !.current_price = mid]]
                 /\ active_positions' = active_positions
            ELSE Remove(m)
    /\ UNCHANGED <<monitoring_active, now, req, trader>>

\* Lines 402-412: the current price, without which the position is skipped,
\* and the live position; a position that is gone is dropped.
MonItem(m) ==
    /\ mon[m].pc = "item"
    /\ \E mid \in PriceReplies :
       \E pos \in (IF mid # 0 THEN PositionReplies ELSE {Position("flat", 0)}) :
         /\ seen' = IF mid = 0 THEN Sight("missing", "none")
                     ELSE Sight("given", pos.kind)
         /\ IF mid = 0
            THEN /\ mon' = [mon EXCEPT ![m] = NextItem(mon[m])]
                 /\ active_positions' = active_positions
            ELSE IF HasPosition(pos)
            THEN /\ mon' = [mon EXCEPT ![m] = [mon[m] EXCEPT !.pc = "evaluate",
                                                             !.current_price = mid]]
                 /\ active_positions' = active_positions
            ELSE Remove(m)
    /\ UNCHANGED <<monitoring_active, now, req, trader>>

\* Lines 418-439: the price conditions, first match first.
price_exit(e, price) ==
    IF e.is_buy
    THEN IF price >= e.tp1 THEN "TP1"
         ELSE IF price >= e.tp2 THEN "TP2"
         ELSE IF price <= e.sl THEN "SL"
         ELSE ""
    ELSE IF price <= e.tp1 THEN "TP1"
         ELSE IF price <= e.tp2 THEN "TP2"
         ELSE IF price >= e.sl THEN "SL"
         ELSE ""

\* Lines 414-444 with the time check before the price checks, so that a price
\* reason overwrites it: a mutant of exit_decision.
exit_decision_price_wins(e, price, t) ==
    IF ~e.max_exit_time.aware
    THEN [raised |-> TRUE, should_close |-> FALSE, close_reason |-> ""]
    ELSE IF price_exit(e, price) # ""
    THEN [raised |-> FALSE, should_close |-> TRUE, close_reason |-> price_exit(e, price)]
    ELSE [raised |-> FALSE, should_close |-> t >= e.max_exit_time.t,
          close_reason |-> IF t >= e.max_exit_time.t THEN "Max exit time reached" ELSE ""]

\* Lines 414-444: should_close and close_reason at clock value t.  Line 442
\* compares an offset-aware now with max_exit_time: TypeError when
\* max_exit_time carries no offset.
exit_decision(e, price, t) ==
    IF ~e.max_exit_time.aware
    THEN [raised |-> TRUE, should_close |-> FALSE, close_reason |-> ""]
    ELSE IF t >= e.max_exit_time.t
    THEN [raised |-> FALSE, should_close |-> TRUE, close_reason |-> "Max exit time reached"]
    ELSE [raised |-> FALSE, should_close |-> price_exit(e, price) # "",
          close_reason |-> price_exit(e, price)]

\* Lines 414-447: the exit decision for the item.
MonEvaluate(m) ==
    /\ mon[m].pc = "evaluate"
    /\ LET d == exit_decision(Current(m), mon[m].current_price, now)
       IN mon' = [mon EXCEPT ![m] =
                    IF d.raised THEN AbortPass(mon[m], "TypeError")
                    ELSE IF d.should_close
                    THEN [mon[m] EXCEPT !.pc = "close", !.close_reason = d.close_reason]
                    ELSE NextItem(mon[m])]
    /\ UNCHANGED <<active_positions, monitoring_active, now, req, trader>>
    /\ seen' = NoSight

\* Lines 448-449: the closing order.
MonClose(m) ==
    /\ mon[m].pc = "close"
    /\ \E pos \in PositionReplies :
       \* the calls after get_position are made only for a held position, the
       \* second price query only after the first one failed
       \E mid \in (IF HasPosition(pos) THEN PriceReplies ELSE {0}) :
       \E mid2 \in (IF HasPosition(pos) /\ mid = 0 THEN PriceReplies ELSE {0}) :
       \E reply \in (IF HasPosition(pos) /\ (mid # 0 \/ mid2 # 0)
                      THEN OrderReplies ELSE {NoResult}) :
         LET c == close_position(Current(m).symbol, pos, mid, mid2, reply)
         IN mon' = [mon EXCEPT ![m] = [mon[m] EXCEPT !.pc = "remove",
                                                     !.current_price = 0,
                                                     !.close_reason = "",
                                                     !.close_result = c.result,
                                                     !.order = c.order]]
    /\ UNCHANGED <<active_positions, monitoring_active, now, req, trader>>
    /\ seen' = NoSight

\* Line 451 with the test left out: a mutant of close_succeeded.
close_succeeded_always(close_result) == TRUE
\* Line 451: "if close_result".
close_succeeded(close_result) == Truthy(close_result)

\* Lines 451-453: a closed position leaves active_positions.
MonRemove(m) ==
    /\ mon[m].pc = "remove"
    /\ IF close_succeeded(mon[m].close_result)
       THEN Remove(m)
       ELSE /\ mon' = [mon EXCEPT ![m] = NextItem(mon[m])]
            /\ active_positions' = active_positions
    /\ UNCHANGED <<monitoring_active, now, req, trader>>
    /\ seen' = NoSight

\* Line 458: time.sleep(5), then the next pass.
MonSleep(m) ==
    /\ mon[m].pc = "sleep"
    /\ mon' = [mon EXCEPT ![m] = [mon[m] EXCEPT !.pc = "loop"]]
    /\ UNCHANGED <<active_positions, monitoring_active, now, req, trader>>
    /\ seen' = NoSight

\* ------------------------------------- calls on a HyperliquidTrader instance

\* The get_asset_specs calls of a method, with meta the reply of info.meta():
\* the cache they leave, whether info.meta() was called, and the reply seen.
Fetch(meta) ==
    LET got == get_asset_specs(trader._asset_specs, meta)
    IN [specs |-> got.specs, fetched |-> got.fetched,
        reply |-> IF got.fetched THEN meta.kind ELSE "none"]

\* The method made no call of get_asset_specs.
Untouched == [specs |-> trader._asset_specs, fetched |-> FALSE, reply |-> "none"]

\* A method returns: got is what its get_asset_specs calls made of the cache,
\* rec the record of the call.
Return(got, rec) ==
    /\ trader' = [_asset_specs |-> got.specs,
                  meta_calls |-> trader.meta_calls + (IF got.fetched THEN 1 ELSE 0),
                  calls |-> trader.calls + 1,
                  call |-> [rec EXCEPT !.meta = got.reply]]
    /\ UNCHANGED <<active_positions, monitoring_active, now, req, mon>>
    /\ seen' = NoSight

\* get_asset_specs (lines 47-68).
GetAssetSpecs(meta) ==
    /\ trader.calls < MaxCalls
    /\ Return(Fetch(meta),
              [NoCall EXCEPT !.op = "get_asset_specs"])

\* get_min_order_size (lines 70-101).
GetMinOrderSize(meta, symbol, price) ==
    /\ trader.calls < MaxCalls
    /\ LET got == Fetch(meta)
       IN Return(got, [NoCall EXCEPT
                         !.op = "get_min_order_size", !.symbol = symbol, !.price = price,
                         !.out = get_min_order_size(got.specs.assets, symbol, price)])

\* validate_and_adjust_size (lines 103-128).
ValidateAndAdjustSize(meta, symbol, size, price) ==
    /\ trader.calls < MaxCalls
    /\ LET got == Fetch(meta)
       IN Return(got, [NoCall EXCEPT
                         !.op = "validate_and_adjust_size", !.symbol = symbol,
                         !.size = size, !.price = price,
                         !.out = validate_and_adjust_size(got.specs.assets, symbol,
                                                          size, price)])

\* format_price (lines 130-155).
FormatPrice(meta, price, symbol) ==
    /\ trader.calls < MaxCalls
    /\ LET got == Fetch(meta)
       IN Return(got, [NoCall EXCEPT
                         !.op = "format_price", !.symbol = symbol, !.price = price,
                         !.out = format_price(got.specs.assets, price, symbol)])

\* calculate_position_size (lines 297-335).  Without a balance and with a
\* price other than 0 it returns at line 304, before any get_asset_specs.
CalculatePositionSize(meta, symbol, price, percentage, balance) ==
    /\ trader.calls < MaxCalls
    /\ LET got == IF balance.kind # "value" /\ price.n # 0 THEN Untouched
                  ELSE Fetch(meta)
           sized == calculate_position_size(got.specs.assets, symbol, price,
                                            percentage, balance)
       IN Return(got, [NoCall EXCEPT
                         !.op = "calculate_position_size", !.symbol = symbol,
                         !.price = price, !.percentage = percentage,
                         !.balance = balance,
                         !.out = [kind |-> sized.kind, v |-> sized.v],
                         !.usd = sized.usd])

\* place_order (lines 184-229).
PlaceOrder(meta, symbol, is_buy, size, price, order_type, mid, reply) ==
    /\ trader.calls < MaxCalls
    /\ LET got == Fetch(meta)
           placed == submit_order(got.specs.assets, symbol, is_buy, size, price,
                                  order_type, mid, reply)
       IN Return(got, [NoCall EXCEPT
                         !.op = "place_order", !.symbol = symbol, !.is_buy = is_buy,
                         !.size = size, !.price = price, !.order_type = order_type,
                         !.mid = mid, !.result = placed.result,
                         !.order = placed.order])

\* close_position (lines 337-372).  Without a position, or with both price
\* queries failing, it returns before any get_asset_specs.
ClosePosition(meta, symbol, pos, mid, mid2, mid3, reply) ==
    /\ trader.calls < MaxCalls
    /\ LET got == IF HasPosition(pos) /\ (mid.n # 0 \/ mid2.n # 0)
                  THEN Fetch(meta)
                  ELSE Untouched
           closed == close_order(got.specs.assets, symbol, pos, mid, mid2, mid3, reply)
       IN Return(got, [NoCall EXCEPT
                         !.op = "close_position", !.symbol = symbol, !.pos = pos,
                         !.mid = mid, !.mid2 = mid2, !.mid3 = mid3,
                         !.result = closed.result, !.order = closed.order])

\* -------------------------------------------------------------- the inputs

\* A clock value no run reaches.
FarFuture == MaxTime + 1

hold == <<"h", "o", "l", "d">>

\* A well-formed signal: direction, token, the levels <<TP1, TP2, SL>>, the
\* Max Exit Time and the Current Price as JSON values.
Signal(msg, token, levels, exit, price) ==
    Payload("dict", msg, token, Num(levels[1]), Num(levels[2]), Num(levels[3]),
            price, exit)

Directions == {Str(buy), Str(<<"B", "u", "y">>), Str(<<"S", "E", "L", "L">>), Str(hold)}
Tokens == {Str(<<"b", "t", "c">>)}
Levels == {<<110, 120, 90>>, <<90, 80, 110>>}
ExitTimes == {Iso(1, "Z"), Iso(1, ""), Iso(FarFuture, "+00:00"), Wrapped(Iso(FarFuture, "Z"))}

SignalPayloads ==
    {Signal(msg, token, levels, exit, price) :
        msg \in Directions, token \in Tokens, levels \in Levels,
        exit \in ExitTimes, price \in {Num(105)}}

\* One signal, and what one wrong member at a time makes of it.
BaseSignal == Signal(Str(buy), Str(<<"b", "t", "c">>), <<110, 120, 90>>, Iso(1, "Z"), Num(105))

FaultyPayloads ==
    {[BaseSignal EXCEPT !.body = "none"], [BaseSignal EXCEPT !.body = "nondict"]}
    \cup {[BaseSignal EXCEPT !.msg = v] : v \in {Absent, Null, Num(1)}}
    \cup {[BaseSignal EXCEPT !.token = v] : v \in {Absent, Num(1)}}
    \cup {[BaseSignal EXCEPT !.tp1 = v] : v \in {Absent, Null, Str(hold)}}
    \cup {[BaseSignal EXCEPT !.tp2 = v] : v \in {Absent, Str(<<>>)}}
    \cup {[BaseSignal EXCEPT !.sl = v] : v \in {Absent, Wrapped(Absent)}}
    \cup {[BaseSignal EXCEPT !.price = v] : v \in {Null, Str(hold)}}
    \cup {[BaseSignal EXCEPT !.exit = v] :
            v \in {Absent, Null, Num(1), Str(hold), Wrapped(Absent), Wrapped(Str(hold)),
                   Wrapped(Num(1)), Wrapped(Null)}}

\* Signals whose numbers arrive as numerals, or whose price is 0.
OtherPayloads ==
    {[BaseSignal EXCEPT !.tp1 = Str(<<"1", "1", "0">>), !.sl = Str(<<"9", "0">>)],
     [BaseSignal EXCEPT !.price = Num(0)],
     [BaseSignal EXCEPT !.price = Absent],
     [BaseSignal EXCEPT !.token = Str(<<"E", "T", "H">>)],
     [BaseSignal EXCEPT !.token = Str(<<"B", "T", "C">>)],
     [BaseSignal EXCEPT !.price = Str(<<"1", "0", "5">>)]}

Payloads == SignalPayloads \cup FaultyPayloads \cup OtherPayloads

\* The signals of the runs with two request threads.
RacePayloads ==
    {BaseSignal,
     Signal(Str(<<"S", "E", "L", "L">>), Str(<<"E", "T", "H">>), <<90, 80, 110>>,
            Iso(FarFuture, "+00:00"), Num(105)),
     Signal(Str(<<"B", "u", "y">>), Str(<<"b", "t", "c">>), <<90, 80, 110>>,
            Iso(1, ""), Num(105)),
     Signal(Str(hold), Str(<<"b", "t", "c">>), <<110, 120, 90>>, Iso(1, "Z"), Num(105))}

\* ------------------------------------------------------- the specifications

\* Requests are served concurrently by the threads of Handlers.
Next ==
    \/ \E h \in Handlers, p \in RacePayloads : IntakeReceive(h, p)
    \/ \E h \in Handlers : IntakeValidate(h)
    \/ \E h \in Handlers : IntakePrice(h)
    \/ \E h \in Handlers : IntakePlace(h)
    \/ \E h \in Handlers : IntakeRegister(h)
    \/ \E h \in Handlers : IntakeCheckMonitor(h)
    \/ \E h \in Handlers : IntakeSetMonitoring(h)
    \/ \E h \in Handlers : IntakeStartMonitor(h)
    \/ \E m \in Monitors : MonInit(m)
    \/ \E m \in Monitors : MonLoop(m)
    \/ \E m \in Monitors : MonItem(m)
    \/ \E m \in Monitors : MonEvaluate(m)
    \/ \E m \in Monitors : MonClose(m)
    \/ \E m \in Monitors : MonRemove(m)
    \/ \E m \in Monitors : MonSleep(m)
    \/ Tick

Spec == Init /\ [][Next]_vars

\* Requests are served one at a time, with every payload of Payloads.
SerialHandlers == 1..MaxSerialSignals

NextSerial ==
    \/ \E h \in SerialHandlers, p \in Payloads : IntakeReceiveSerial(h, p)
    \/ \E h \in SerialHandlers : IntakeValidate(h)
    \/ \E h \in SerialHandlers : IntakePrice(h)
    \/ \E h \in SerialHandlers : IntakePlace(h)
    \/ \E h \in SerialHandlers : IntakeRegister(h)
    \/ \E h \in SerialHandlers : IntakeCheckMonitor(h)
    \/ \E h \in SerialHandlers : IntakeSetMonitoring(h)
    \/ \E h \in SerialHandlers : IntakeStartMonitor(h)
    \/ \E m \in Monitors : MonInit(m)
    \/ \E m \in Monitors : MonLoop(m)
    \/ \E m \in Monitors : MonItem(m)
    \/ \E m \in Monitors : MonEvaluate(m)
    \/ \E m \in Monitors : MonClose(m)
    \/ \E m \in Monitors : MonRemove(m)
    \/ \E m \in Monitors : MonSleep(m)
    \/ Tick

SpecSerial == Init /\ [][NextSerial]_vars

\* The exchange answers the price and position queries of an item.
MonItemAnswered(m) ==
    MonItem(m) /\ seen' \in {Sight("given", "flat"), Sight("given", "held")}

\* The exchange accepts the closing order.
MonCloseAccepted(m) ==
    MonClose(m) /\ order_accepted(mon'[m].close_result)

\* The clock moves on and a monitor thread that can take a step takes it
\* (the loop of lines 392-458 has no blocking call but the sleep); an
\* exchange that keeps being asked answers in the end.
Fairness ==
    /\ WF_vars(Tick)
    /\ \A m \in Monitors :
         /\ WF_vars(MonInit(m))
         /\ WF_vars(MonLoop(m))
         /\ WF_vars(MonItem(m))
         /\ WF_vars(MonEvaluate(m))
         /\ WF_vars(MonClose(m))
         /\ WF_vars(MonRemove(m))
         /\ WF_vars(MonSleep(m))
         /\ SF_vars(MonItemAnswered(m))
         /\ SF_vars(MonCloseAccepted(m))

\* The serial runs under that fairness.
SpecLive == Init /\ [][NextSerial]_vars /\ Fairness

\* The asset names of the calls on the trader; XRP is in no listing.
BTC == <<"B", "T", "C">>
ETH == <<"E", "T", "H">>
SOL == <<"S", "O", "L">>
XRP == <<"X", "R", "P">>
TraderSymbols == {BTC, ETH, SOL, XRP}

\* The replies of info.meta(): an exception; a dict without 'universe'; a
\* listing with a perpetual (szDecimals 2), an asset at place 10000
\* (szDecimals 4) and an asset whose szDecimals is null; a listing whose asset
\* has no szDecimals.
MetaFailure == Meta("error", <<>>)
MetaReplies ==
    {MetaFailure,
     Meta("dict", <<>>),
     Meta("universe", [name \in {BTC, ETH, SOL} |->
                         IF name = BTC THEN Asset(0, Num(2))
                         ELSE IF name = ETH THEN Asset(10000, Num(4))
                         ELSE Asset(1, Null)]),
     Meta("universe", [name \in {BTC} |-> Asset(0, Absent)])}

\* info.meta() is called only while the cache is None: its reply matters then.
MetaFor == IF trader._asset_specs.loaded THEN {MetaFailure} ELSE MetaReplies

\* Prices: 0, 4, 105, 200000; and for the formatting 1234.567, 0.123456 and
\* 99999.9 as well.
SizingPrices == {Whole(0), Whole(4), Whole(105), Whole(200000)}
FormatPrices == SizingPrices \cup {Rat(1234567, 1000), Rat(123456, 1000000), Rat(999999, 10)}
\* Sizes: 0.00001, 0.05, 2.5, 12.346.
Sizes == {Rat(1, 100000), Rat(1, 20), Rat(5, 2), Rat(6173, 500)}
\* get_vault_balance: None, or a total account value of 0 or 1000.
Balances == {None, Value(Whole(0)), Value(Whole(1000))}
Percentages == {Whole(10)}
\* get_position: None, or a position of 0.003, -2.5 or 12.346.
HeldPositions ==
    {Position("flat", Whole(0)), Position("held", Rat(3, 1000)),
     Position("held", Rat(-5, 2)), Position("held", Rat(6173, 500))}
\* get_current_price inside the trader: None (0) or 105.
Mids == {Whole(0), Whole(105)}

\* Calls on one trader instance, in any order.
NextTrader ==
    \/ \E meta \in MetaFor : GetAssetSpecs(meta)
    \/ \E meta \in MetaFor, symbol \in TraderSymbols, price \in SizingPrices :
         GetMinOrderSize(meta, symbol, price)
    \/ \E meta \in MetaFor, symbol \in TraderSymbols, size \in Sizes,
          price \in SizingPrices :
         ValidateAndAdjustSize(meta, symbol, size, price)
    \/ \E meta \in MetaFor, price \in FormatPrices, symbol \in TraderSymbols :
         FormatPrice(meta, price, symbol)
    \/ \E meta \in MetaFor, symbol \in TraderSymbols, price \in SizingPrices,
          percentage \in Percentages, balance \in Balances :
         CalculatePositionSize(meta, symbol, price, percentage, balance)
    \/ \E meta \in MetaFor, symbol \in {BTC, XRP}, is_buy \in BOOLEAN,
          size \in {Rat(1, 100000), Rat(6173, 500)}, price \in {Whole(105)},
          order_type \in {"market", "limit"}, mid \in Mids, reply \in {OkResult} :
         PlaceOrder(meta, symbol, is_buy, size, price, order_type, mid, reply)
    \/ \E meta \in MetaFor, symbol \in {BTC, XRP}, pos \in HeldPositions,
          mid \in Mids, mid2 \in Mids, mid3 \in Mids, reply \in {OkResult} :
         ClosePosition(meta, symbol, pos, mid, mid2, mid3, reply)

SpecTrader == Init /\ [][NextTrader]_vars

\* ------------------------------------------------------------------ claims

Registered(h) == req[h].signal_id # NoId

\* C1: every entry of active_positions was inserted by a request whose order
\* placement returned a dict with status 'ok', and a request whose placement
\* returned None, a non-dict or another status has inserted nothing.
C1_RegisteredAfterOkOrder ==
    /\ \A i \in DOMAIN active_positions :
         LET e == active_positions[i]
         IN /\ e.order_result.kind = "dict"
            /\ e.order_result.status = "ok"
            /\ \E h \in Handlers : /\ Registered(h)
                                   /\ req[h].signal_id = e.id
                                   /\ req[h].order_result = e.order_result
                                   /\ req[h].order # NoOrder
    /\ \A h \in Handlers :
         (req[h].order # NoOrder
            /\ ~(req[h].order_result.kind = "dict" /\ req[h].order_result.status = "ok"))
         => (~Registered(h) /\ req[h].pc = "done" /\ req[h].code = 500)

\* C1, witness: a position is registered while another request ended on an
\* order that the exchange answered with an error status.
C1_Witness ==
    /\ active_positions # <<>>
    /\ \E h \in Handlers : req[h].pc = "done" /\ req[h].order_result = ErrResult

\* C2: no removal is attempted on an entry that has left the registry (such
\* a del raises KeyError, which line 455 catches): every registered position
\* is removed once, by one monitor.
C2_RemovedOnce == \A m \in Monitors : mon[m].error # "KeyError"

\* C3: any two registered signals have different signal identifiers.
C3_UniqueSignalId ==
    \A h1 \in Handlers, h2 \in Handlers :
        (h1 # h2 /\ Registered(h1)) => req[h1].signal_id # req[h2].signal_id

\* C4: at most one monitor thread is ever started.
C4_SingleMonitor == Cardinality({m \in Monitors : mon[m].pc # "none"}) <= 1

\* Monitor m takes a step from the place pc of its loop body.
MonStepAt(m, pc) == mon[m].pc = pc /\ mon'[m] # mon[m]

\* C5: after an exit trigger, a close that returned no result leaves the
\* registry as it is and the pass goes on; the position leaves the registry
\* exactly when the close returned a truthy result.
C5_RemovedOnlyOnTruthyClose ==
    [][\A m \in Monitors :
         MonStepAt(m, "remove") =>
           IF mon[m].close_result.kind = "none" \/ mon[m].close_result.empty
           THEN active_positions' = active_positions /\ mon'[m].error = ""
           ELSE Current(m).id \notin Keys(active_positions')]_vars

\* C5, witness: closePosition has returned no result for a position whose
\* exit condition held, and the position is in the registry.
C5_Witness ==
    \E m \in Monitors :
        /\ mon[m].pc = "remove"
        /\ mon[m].close_result = NoResult
        /\ Current(m).id \in Keys(active_positions)

\* C6: when the exchange's reply to the closing order is returned without the
\* success status 'ok', the monitor leaves the position in the registry.
C6_TrackedAfterFailedClose ==
    [][\A m \in Monitors :
         (MonStepAt(m, "remove") /\ mon[m].close_result.kind # "none"
            /\ mon[m].close_result.status # "ok")
         => active_positions' = active_positions]_vars

\* The exit conditions of the claim: the price against tp1, tp2 and sl in the
\* position's direction, or the max-exit time at clock value t.
ExitDue(e, price, t) ==
    \/ e.is_buy /\ (price >= e.tp1 \/ price >= e.tp2 \/ price <= e.sl)
    \/ ~e.is_buy /\ (price <= e.tp1 \/ price <= e.tp2 \/ price >= e.sl)
    \/ t >= e.max_exit_time.t

\* C7: with the price available and the live position held, closePosition is
\* called if and only if an exit condition holds.
C7_CloseIffExitDue ==
    [][\A m \in Monitors :
         MonStepAt(m, "evaluate") =>
           (mon'[m].pc = "close" <=> ExitDue(Current(m), mon[m].current_price, now))]_vars

\* The reason of the claim: the time-based one once the max-exit time is
\* reached, else the first price condition in the order TP1, TP2, SL.
ExitReason(e, price, t) ==
    IF t >= e.max_exit_time.t THEN "Max exit time reached"
    ELSE IF (e.is_buy /\ price >= e.tp1) \/ (~e.is_buy /\ price <= e.tp1) THEN "TP1"
    ELSE IF (e.is_buy /\ price >= e.tp2) \/ (~e.is_buy /\ price <= e.tp2) THEN "TP2"
    ELSE IF (e.is_buy /\ price <= e.sl) \/ (~e.is_buy /\ price >= e.sl) THEN "SL"
    ELSE ""

\* The buy position of the claim's example, its max-exit time not reached.
IsExample(e, t) ==
    /\ e.is_buy /\ e.tp1 = 110 /\ e.tp2 = 120 /\ e.sl = 90
    /\ e.max_exit_time.aware /\ t < e.max_exit_time.t

Validated(h) == req[h].pc \notin {"idle", "validate"}

\* Strings a and b are the same up to the case of their letters.
EqIgnoreCase(a, b) ==
    /\ Len(a) = Len(b)
    /\ \A i \in DOMAIN a :
         \/ a[i] = b[i]
         \/ \E k \in DOMAIN UpperChars : {a[i], b[i]} = {UpperChars[k], LowerChars[k]}

\* A JSON value that is a number, or a string that spells one.
IsNumeral(v) ==
    \/ v.t = "num"
    \/ v.t = "str" /\ v.s # <<>>
         /\ \A i \in DOMAIN v.s : \E k \in DOMAIN Digits : Digits[k] = v.s[i]

\* A JSON value that is an ISO-8601 string, or an object holding one as "$date".
IsTimestamp(v) == v.t = "iso" \/ (v.t = "dict" /\ v.inner = "iso")

\* A JSON value that is the string buy or sell in some casing.
IsDirection(v) == v.t = "str" /\ (EqIgnoreCase(v.s, buy) \/ EqIgnoreCase(v.s, sell))

\* Everything of payload p but its direction is as the endpoint requires.
WellFormedBesidesDirection(p) ==
    /\ p.body = "dict"
    /\ \A f \in {p.msg, p.token, p.tp1, p.tp2, p.sl, p.exit} : f.t # "absent"
    /\ p.token.t = "str"
    /\ \A f \in {p.tp1, p.tp2, p.sl} : IsNumeral(f)
    /\ p.price.t = "absent" \/ IsNumeral(p.price)
    /\ IsTimestamp(p.exit)

\* The validation failures of the claim: a body that is no object, a missing
\* required field, an unparseable numeric field, an unparseable or wrongly
\* typed Max Exit Time, a direction other than buy and sell.
ValidationFailure(p) ==
    \/ p.body # "dict"
    \/ \E f \in {p.msg, p.token, p.tp1, p.tp2, p.sl, p.exit} : f.t = "absent"
    \/ \E f \in {p.tp1, p.tp2, p.sl} : ~IsNumeral(f)
    \/ p.price.t # "absent" /\ ~IsNumeral(p.price)
    \/ ~IsTimestamp(p.exit)
    \/ ~IsDirection(p.msg)

\* Request h was answered with status code and had no side effect: no order
\* went to the exchange, nothing was registered, no monitor was started.
RejectedWith(h, code) ==
    /\ req[h].pc = "done" /\ req[h].code = code
    /\ req[h].order = NoOrder
    /\ ~Registered(h)
    /\ mon[h].pc = "none"

\* C9: a signal with a validation failure is answered with 400 and has no
\* side effect: no order, no registry entry, no monitor start.
C9_ValidationFailureIs400 ==
    \A h \in Handlers :
        (Validated(h) /\ ValidationFailure(req[h].payload)) => RejectedWith(h, 400)

C10_WitnessHold ==
    \E h \in Handlers :
        /\ req[h].payload.msg = Str(hold)
        /\ req[h].pc = "done" /\ req[h].code = 400

\* C11: monitoring_active is False at the start; it changes only to True, in
\* the step of a request that has registered its position; a monitor thread
\* exists only when a position was registered; no step sets the flag back,
\* whatever becomes of the registry.
C11_FlagSetOnceAfterRegistering ==
    /\ monitoring_active = FALSE
    /\ [][/\ monitoring_active => monitoring_active'
          /\ (~monitoring_active /\ monitoring_active') =>
               \E h \in Handlers :
                   /\ req[h].pc = "set" /\ req'[h].pc = "start"
                   /\ Registered(h)
          /\ \A m \in Monitors :
               mon'[m].pc # "none" => (monitoring_active' /\ Registered(m)')]_vars

\* C11, witness: the flag is True, a monitor has run, and the registry is
\* empty again after a registration.
C11_Witness ==
    /\ monitoring_active
    /\ active_positions = <<>>
    /\ \E h \in Handlers : Registered(h) /\ mon[h].pc = "loop"

\* The last call on the trader was of method op.
Called(op) == trader.call.op = op
\* The cache the last call worked on: it is loaded by the call at the latest.
Cached == trader._asset_specs.assets
\* Symbol s is in the cache with a number d for its sz_decimals.
KnownDecimals(s) == s \in DOMAIN Cached /\ Cached[s].sz_decimals.t = "num"

\* C12: over any sequence of calls on a trader, info.meta() is called at most
\* once, by the call that finds the cache None; that call caches a mapping (an
\* empty one when the fetch raised or gave no universe); once cached, the
\* mapping is never fetched again and never changes.
C12_SpecsFetchedOnce ==
    [][/\ trader'.meta_calls <= 1
       /\ trader._asset_specs.loaded =>
            /\ trader'._asset_specs = trader._asset_specs
            /\ trader'.meta_calls = trader.meta_calls
            /\ trader'.call.meta = "none"
       /\ trader'.meta_calls # trader.meta_calls =>
            /\ ~trader._asset_specs.loaded /\ trader'._asset_specs.loaded
            /\ trader'.call.meta \in {"error", "dict"} => trader'._asset_specs.assets = <<>>
       /\ Called("get_asset_specs")' =>
            (trader'._asset_specs.loaded /\ trader'.meta_calls = 1)]_vars

\* C12, witness: a second call of get_asset_specs has returned the empty
\* mapping that the first fetch left, without a fetch of its own.
C12_Witness ==
    /\ trader.calls = 2 /\ Called("get_asset_specs")
    /\ trader._asset_specs = AssetSpecs(TRUE, <<>>)
    /\ trader.meta_calls = 1 /\ trader.call.meta = "none"

\* C13: get_min_order_size, validate_and_adjust_size, format_price and
\* calculate_position_size hand back a number for every input, and never an
\* exception.
C13_SizingNeverRaises ==
    (\E op \in {"get_min_order_size", "validate_and_adjust_size", "format_price",
                "calculate_position_size"} : Called(op))
      => trader.call.out.kind = "value"

\* The sizes and prices of the last call, and the order it submitted.
TheCall == trader.call
TheOrder == trader.call.order
Submitted == TheOrder # NoSizedOrder

\* C14: an order that place_order submits, for a market or a limit order,
\* carries the price that is the market price or the formatted price of the
\* caller, and the size that validate_and_adjust_size makes of the caller's
\* size at that price.
C14_SubmittedSizeAdjusted ==
    (Called("place_order") /\ Submitted) =>
        /\ TheOrder.price \in
             {get_market_price(Cached, TheCall.symbol, TheCall.is_buy, TheCall.mid).v,
              format_price(Cached, TheCall.price, TheCall.symbol).v}
        /\ TheOrder.size =
             validate_and_adjust_size(Cached, TheCall.symbol, TheCall.size,
                                      TheOrder.price).v

\* C14, witness: a market order was submitted with a size that the adjustment
\* changed.
C14_Witness ==
    /\ Called("place_order") /\ Submitted
    /\ TheCall.order_type = "market"
    /\ TheOrder.tif = "Ioc"
    /\ TheOrder.size # TheCall.size

\* C15: close_position submits a buy for a held size below 0 and a sell for
\* one above 0; it returns None and submits nothing when there is no live
\* position or when both price queries fail.
C15_ClosesOppositeSide ==
    Called("close_position") =>
        IF HasPosition(TheCall.pos) /\ (TheCall.mid.n # 0 \/ TheCall.mid2.n # 0)
        THEN /\ Submitted
             /\ TheCall.pos.szi.n < 0 => TheOrder.is_buy
             /\ TheCall.pos.szi.n > 0 => ~TheOrder.is_buy
        ELSE ~Submitted /\ TheCall.result = NoResult

\* C15, witness: a short position was closed with a buy, at the mid price of
\* the second query.
C15_Witness ==
    /\ Called("close_position") /\ Submitted
    /\ TheCall.pos.szi.n < 0 /\ TheOrder.is_buy
    /\ TheCall.mid.n = 0

\* C16: the order close_position submits has the absolute held size as its
\* size.
C16_ClosesHeldSize ==
    (Called("close_position") /\ Submitted) => TheOrder.size = abs(TheCall.pos.szi)

\* C17: for a price above 0, get_min_order_size returns max(10^-d, 10/price)
\* for a symbol cached with szDecimals d, and max(10/price, 0.0001) for a
\* symbol that is not in the cache.
C17_MinOrderSize ==
    (Called("get_min_order_size") /\ TheCall.price.n > 0) =>
        LET usd == Rat(10 * TheCall.price.d, TheCall.price.n)
            lot == IF KnownDecimals(TheCall.symbol)
                   THEN Ten(-Cached[TheCall.symbol].sz_decimals.n)
                   ELSE Rat(1, 10000)
        IN (KnownDecimals(TheCall.symbol) \/ TheCall.symbol \notin DOMAIN Cached) =>
             /\ TheCall.out.kind = "value"
             /\ TheCall.out.v \in {usd, lot}
             /\ ~Less(TheCall.out.v, usd) /\ ~Less(TheCall.out.v, lot)

\* C17, witness: the minimum of a symbol that is not in the cache is 0.0001,
\* at a price where 10 USD buy less than that.
C17_Witness ==
    /\ Called("get_min_order_size")
    /\ TheCall.symbol \notin DOMAIN Cached
    /\ TheCall.out = Value(Rat(1, 10000))

\* C18: for a price above 0, validate_and_adjust_size returns 1.01 times the
\* minimum order size for a size below that minimum; for any other size it
\* returns the size rounded to d decimals for a symbol cached with szDecimals
\* d, and the size itself for a symbol that is not in the cache.
C18_AdjustedSize ==
    (Called("validate_and_adjust_size") /\ TheCall.price.n > 0) =>
        LET min_size == get_min_order_size(Cached, TheCall.symbol, TheCall.price).v
        IN IF Less(TheCall.size, min_size)
           THEN TheCall.out = Value(Rat(101 * min_size.n, 100 * min_size.d))
           ELSE /\ KnownDecimals(TheCall.symbol) =>
                     TheCall.out = Value(round(TheCall.size,
                                               Cached[TheCall.symbol].sz_decimals.n))
                /\ TheCall.symbol \notin DOMAIN Cached => TheCall.out = Value(TheCall.size)

\* C18, witness: a size at or above the minimum was rounded to the decimals
\* of its symbol, and changed by it.
C18_Witness ==
    /\ Called("validate_and_adjust_size") /\ TheCall.price.n > 0
    /\ KnownDecimals(TheCall.symbol)
    /\ ~Less(TheCall.size,
             get_min_order_size(Cached, TheCall.symbol, TheCall.price).v)
    /\ TheCall.out.v # TheCall.size

\* C19: format_price returns the price rounded to 5 significant digits and
\* then, for a symbol in the cache, to decimals - szDecimals places, decimals
\* being 8 for an asset id from 10000 on and 6 below; formatting the result
\* again, for the same symbol, gives the result.
C19_FormatPriceIdempotent ==
    Called("format_price") =>
        /\ TheCall.out.kind = "value"
        /\ format_price(Cached, TheCall.out.v, TheCall.symbol) = TheCall.out
        /\ KnownDecimals(TheCall.symbol) =>
             TheCall.out.v =
               round(format_5g(TheCall.price),
                     (IF Cached[TheCall.symbol].asset_id >= 10000 THEN 8 ELSE 6)
                       - Cached[TheCall.symbol].sz_decimals.n)
        /\ TheCall.symbol \notin DOMAIN Cached =>
             TheCall.out.v = format_5g(TheCall.price)

\* C19, witness: a price with more than 5 significant digits was formatted for
\* an asset with an id of 10000, and both roundings changed it.
C19_Witness ==
    /\ Called("format_price") /\ KnownDecimals(TheCall.symbol)
    /\ Cached[TheCall.symbol].asset_id >= 10000
    /\ format_5g(TheCall.price) # TheCall.price
    /\ TheCall.out.v # format_5g(TheCall.price)

\* C20: for a price above 0, calculate_position_size without a balance
\* returns 100 USD and the size 100/price; with a balance it takes
\* accountValue * percentage / 100 as the notional, 1.1 * minOrderSize * price
\* instead when the notional is below minOrderSize * price, and returns the
\* size that validate_and_adjust_size makes of notional / price.
C20_PositionSize ==
    (Called("calculate_position_size") /\ TheCall.price.n > 0) =>
        IF TheCall.balance.kind # "value"
        THEN /\ TheCall.usd = Whole(100)
             /\ TheCall.out = Value(Rat(100 * TheCall.price.d, TheCall.price.n))
        ELSE LET price == TheCall.price
                 wanted == Mul(TheCall.balance.v, Rat(TheCall.percentage.n,
                                                      100 * TheCall.percentage.d))
                 least == Mul(get_min_order_size(Cached, TheCall.symbol, price).v, price)
                 notional == IF Less(wanted, least) THEN Mul(Rat(11, 10), least)
                             ELSE wanted
             IN TheCall.out =
                  validate_and_adjust_size(Cached, TheCall.symbol,
                                           Div(notional, price), price)

\* C20, witness: a notional below the minimum was raised, and the size
\* returned is above what the balance alone gives.
C20_Witness ==
    /\ Called("calculate_position_size") /\ TheCall.price.n > 0
    /\ TheCall.balance = Value(Whole(1000))
    /\ Less(Mul(Whole(100), Rat(TheCall.price.d, TheCall.price.n)), TheCall.out.v)

\* C21: a monitor step for a TrackedPosition whose price cannot be fetched
\* changes nothing but the monitor's place in the pass: the registry is the
\* same, get_position is not called, and the monitor goes on to the next item
\* or the sleep with no exit reason, no closing result and no closing order.
C21_NoPriceSkips ==
    [][\A m \in Monitors :
         (MonStepAt(m, "item") /\ seen'.price = "missing") =>
            /\ active_positions' = active_positions
            /\ seen'.position = "none"
            /\ mon'[m] = NextItem(mon[m])
            /\ mon'[m].pc \in {"item", "sleep"}
            /\ mon'[m].close_reason = ""
            /\ mon'[m].close_result = NoResult
            /\ mon'[m].order = NoOrder]_vars

\* A position was skipped for its missing price and is still tracked.
C21_Witness ==
    /\ seen.price = "missing"
    /\ active_positions # <<>>
    /\ \E m \in Monitors : mon[m].pc = "sleep" /\ mon[m].order = NoOrder

\* C22: a monitor step that gets a price and is told by the exchange that
\* there is no position for the symbol of a TrackedPosition deletes that
\* TrackedPosition, and only it, from the registry, whatever its exit levels
\* and max-exit time are; no exit reason is set and no closing order is
\* made, and the monitor goes on to the next item of the pass, or to the
\* sleep after the last one.
C22_GoneIsDropped ==
    [][\A m \in Monitors :
         (/\ MonStepAt(m, "item")
          /\ seen' = Sight("given", "flat")
          /\ Current(m).id \in Keys(active_positions)) =>
            /\ active_positions' = DelItem(active_positions, Current(m).id)
            /\ Current(m).id \notin Keys(active_positions')
            /\ mon'[m] = NextItem(mon[m])
            /\ mon'[m].close_reason = ""
            /\ mon'[m].close_result = NoResult
            /\ mon'[m].order = NoOrder
            /\ mon'[m].error = mon[m].error
            /\ IF mon[m].idx < Len(mon[m].items)
               THEN mon'[m].pc = "item" /\ mon'[m].idx = mon[m].idx + 1
               ELSE mon'[m].pc = "sleep"]_vars

\* A position past its max-exit time was dropped as gone, and its monitor is
\* at the next position of the pass.
C22_Witness ==
    /\ seen = Sight("given", "flat")
    /\ \E m \in Monitors :
         /\ mon[m].pc = "item"
         /\ mon[m].idx = 2
         /\ mon[m].items[1].id \notin Keys(active_positions)
         /\ mon[m].items[1].max_exit_time.aware
         /\ now >= mon[m].items[1].max_exit_time.t
         /\ mon[m].items[2].id \in Keys(active_positions)

\* The request of handler h goes from step pc to the end.
EndsAt(h, pc) == req[h].pc = pc /\ req'[h].pc = "done"

\* C23: a signal intake resolves the price, then sizes and places the order,
\* then registers, then sees to the monitor.  The registering step follows an
\* accepted order made at a resolved (non-zero) price, and it puts under the
\* signal_id it returns a TrackedPosition with the symbol, direction, tp1,
\* tp2, sl and max-exit time parsed from the payload and the resolved price
\* as entry price; a request answered 200 has registered and leaves the
\* monitor flag true.  A request that ends at the price step (no price, or
\* no trader) or at the order step ends with an error status and changes
\* neither the registry nor the flag.
C23_IntakeOrder ==
    [][\A h \in Handlers :
         /\ req'[h].pc = "place" => req'[h].current_price # 0
         /\ req'[h].pc = "register" =>
               /\ req'[h].current_price # 0
               /\ req'[h].order # NoOrder
               /\ order_accepted(req'[h].order_result)
         /\ (req[h].pc = "register" /\ req'[h] # req[h]) =>
               /\ req'[h].pc = "check"
               /\ req[h].parsed = validate_signal(req[h].payload)
               /\ req'[h].signal_id = signal_id(req[h].parsed.symbol, now)
               /\ \E i \in DOMAIN active_positions' :
                    LET e == active_positions'[i]
                        parsed == req[h].parsed
                    IN /\ e.id = req'[h].signal_id
                       /\ e.symbol = parsed.symbol
                       /\ e.is_buy = parsed.is_buy
                       /\ e.tp1 = parsed.tp1 /\ e.tp2 = parsed.tp2 /\ e.sl = parsed.sl
                       /\ e.max_exit_time = parsed.max_exit_time
                       /\ e.entry_price = req[h].current_price
                       /\ parsed.current_price # 0 => e.entry_price = parsed.current_price
                       /\ e.order_result = req[h].order_result
         /\ (req[h].pc # "done" /\ req'[h].pc = "done" /\ req'[h].code = 200) =>
               /\ req[h].pc \in {"check", "start"}
               /\ req'[h].signal_id # NoId
               /\ monitoring_active'
         /\ (EndsAt(h, "price") \/ EndsAt(h, "place")) =>
               /\ req'[h].code \in {400, 500}
               /\ req'[h].signal_id = NoId
               /\ active_positions' = active_positions
               /\ monitoring_active' = monitoring_active]_vars

\* A signal without a price was answered 200: its position is tracked at the
\* live price, and the flag is set.
C23_Witness ==
    \E h \in Handlers :
      /\ req[h].pc = "done" /\ req[h].code = 200
      /\ req[h].parsed.current_price = 0
      /\ monitoring_active
      /\ \E i \in DOMAIN active_positions :
           /\ active_positions[i].id = req[h].signal_id
           /\ active_positions[i].entry_price = req[h].current_price
           /\ active_positions[i].entry_price # 0

\* A signal without a price ended with 400 at the price step.
C23_WitnessNoPrice ==
    \E h \in Handlers :
      /\ req[h].pc = "done" /\ req[h].code = 400
      /\ req[h].parsed.code = 0
      /\ req[h].parsed.current_price = 0
      /\ req[h].order = NoOrder
      /\ active_positions = <<>>
      /\ ~monitoring_active

\* C24: a monitor step whose position query failed (get_position caught an
\* exception, or the account reply was malformed) leaves the registry as it
\* was.
C24_FailedQueryKeeps ==
    [][\A m \in Monitors :
         (MonStepAt(m, "item") /\ seen'.position = "error") =>
            active_positions' = active_positions]_vars

\* C25: a monitor pass goes through every item of its snapshot: a step for an
\* item that is not the last of the snapshot never ends the pass, whatever
\* is raised while the item is processed.
C25_PassReachesEveryItem ==
    [][\A m \in Monitors :
         (/\ mon[m].pc \in {"item", "evaluate", "close", "remove"}
          /\ mon'[m] # mon[m]
          /\ mon[m].idx < Len(mon[m].items)) =>
            mon'[m].pc # "sleep"]_vars

\* C26: for a symbol cached with szDecimals d and an order price above 0, the
\* size of an order that place_order submits is a whole number of lots 10^-d
\* and is not below get_min_order_size at the order's price.
C26_SubmittedSizeLegal ==
    (/\ Called("place_order") /\ Submitted
     /\ KnownDecimals(TheCall.symbol)
     /\ TheOrder.price.n > 0) =>
        LET lots == Mul(TheOrder.size, Ten(Cached[TheCall.symbol].sz_decimals.n))
            min_size == get_min_order_size(Cached, TheCall.symbol, TheOrder.price).v
        IN lots.d = 1 /\ ~Less(TheOrder.size, min_size)

\* The ids receive_signal can give.
SignalIds == {signal_id(upper(tok.s), t) : tok \in Tokens \cup {Str(<<"E", "T", "H">>)},
                                          t \in 0..MaxTime}

\* The position registered under id is past its max-exit time.
Overdue(id) ==
    \E i \in DOMAIN active_positions :
      /\ active_positions[i].id = id
      /\ now >= active_positions[i].max_exit_time.t

\* A monitor thread is in its loop.
MonitorLoops == \E m \in Monitors : mon[m].pc \notin {"none", "init", "dead"}

\* C27: with a monitor thread in its loop, a fair scheduler and an exchange
\* that answers in the end, a TrackedPosition that is past its max-exit time
\* leaves the registry.
C27_OverdueIsRemoved ==
    \A id \in SignalIds :
      (Overdue(id) /\ MonitorLoops) ~> (id \notin Keys(active_positions))

\* C28: while monitoring_active is true a monitor thread is alive, or the
\* request that set the flag is about to start one (between lines 595 and
\* 597).
C28_FlagMeansMonitorAlive ==
    monitoring_active =>
        \/ \E m \in Monitors : mon[m].pc \notin {"none", "dead"}
        \/ \E h \in Handlers : req[h].pc = "start"

====
